---- MODULE Spec2Model ----
(***************************************************************************)
(* Model of the SIOP verifiable-credentials verifier:                      *)
(*   ClaimToken            (classification and child extraction)           *)
(*   SiopTokenValidator    (validate, getTokens, validateReplayProtection) *)
(*   Validator             (validate, checkVcsStatus, setValidationResult) *)
(* The validation queue and the validators of the other token types are    *)
(* modelled from their documented behaviour.                               *)
(***************************************************************************)
EXTENDS Integers, Sequences, FiniteSets, TLC

\* ------------------------------------------------------------------ bounds

\* Largest number of entries of an attestations object / a descriptor_map.
MaxChildren == 2

\* Largest number of credentials in vp.verifiableCredential.
MaxVcs == 1

\* --------------------------------------------------------------- constants

TOKEN_SI_ISS == "https://self-issued.me"

CLAIMS_SELFISSUED == "selfIssued"

Undefined == "undefined"

\* ------------------------------------------------------------------ tokens
\* A raw token is modelled by what decoding it yields:
\*   dec       "ok" | "badpayload" | "badheader"  (base64url/JSON decoding)
\*   sig       third segment: "none" (absent), "blank", "signed"
\*   iss, contract, hasPs, hasAtt, vc, vp   the payload's shape markers
\*   att       the attestations object, as its entries in iteration order
\*   dmap      presentation_submission.descriptor_map
\*   vcs       vp.verifiableCredential
\*   did       the DID that signed a SIOP
\*   aud, nonce, state, jti
\*   statusUrl vc.credentialStatus.id, "" when the credential has none

NoContract == [present |-> FALSE, url |-> FALSE, segs |-> <<>>]

BaseTok ==
    [dec |-> "ok", sig |-> "signed", iss |-> "did:idp", contract |-> NoContract,
     hasPs |-> FALSE, hasAtt |-> FALSE, vc |-> FALSE, vp |-> FALSE,
     att |-> <<>>, dmap |-> <<>>, vcs |-> <<>>,
     did |-> Undefined, aud |-> Undefined, nonce |-> Undefined, state |-> Undefined,
     jti |-> Undefined, statusUrl |-> ""]

TokenTypes ==
    {"selfIssued", "idToken", "siopIssuance", "siopPresentationAttestation",
     "siopPresentationExchange", "verifiablePresentation", "verifiableCredential",
     "verifiablePresentationStatus"}

\* A ClaimToken: its type, the token it was built from, and how it was built
\* ("create": ClaimToken.create, "ctor": the constructor called directly).
ClaimTokenOf(type, tok, via) == [type |-> type, tok |-> tok, via |-> via]

NoClaimToken == ClaimTokenOf("none", BaseTok, "none")

Thrown(msg) == [ok |-> FALSE, msg |-> msg, ct |-> NoClaimToken]

Created(type, tok) == [ok |-> TRUE, msg |-> <<>>, ct |-> ClaimTokenOf(type, tok, "create")]

\* ClaimToken.tokenSignature
tokenSignature(tok) == tok.sig = "signed"

\* ClaimToken.create's shape tests with the first two SIOP tests exchanged.
classifySwapped(tok) ==
    IF tok.iss = TOKEN_SI_ISS THEN
        IF tok.hasPs THEN "siopPresentationExchange"
        ELSE IF tok.contract.present THEN "siopIssuance"
        ELSE IF tok.hasAtt THEN "siopPresentationAttestation"
        ELSE "unrecognised"
    ELSE IF tok.vc THEN "verifiableCredential"
    ELSE IF tok.vp THEN "verifiablePresentation"
    ELSE IF tokenSignature(tok) THEN "idToken"
    ELSE "selfIssued"

\* The shape tests of ClaimToken.create, in the order of the code.
classify(tok) ==
    IF tok.iss = TOKEN_SI_ISS THEN
        IF tok.contract.present THEN "siopIssuance"
        ELSE IF tok.hasPs THEN "siopPresentationExchange"
        ELSE IF tok.hasAtt THEN "siopPresentationAttestation"
        ELSE "unrecognised"
    ELSE IF tok.vc THEN "verifiableCredential"
    ELSE IF tok.vp THEN "verifiablePresentation"
    ELSE IF tokenSignature(tok) THEN "idToken"
    ELSE "selfIssued"

\* ClaimToken.create without the final throw of the SIOP branch: a token with
\* the SIOP issuer and no SIOP marker is taken for self-issued claims.
createWithoutThrow(tok) ==
    IF tok.dec # "ok" THEN Thrown(<<"Unexpected token in JSON">>)
    ELSE IF classify(tok) = "unrecognised" THEN Created("selfIssued", tok)
    ELSE Created(classify(tok), tok)

\* ClaimToken.create: getTokenPayload (throws on an undecodable payload), the
\* shape tests, then the constructor, whose decode() parses the header too.
create(tok) ==
    IF tok.dec = "badpayload" THEN Thrown(<<"Unexpected token in JSON">>)
    ELSE IF classify(tok) = "unrecognised" THEN Thrown(<<"SIOP was not recognized.">>)
    ELSE IF tok.dec = "badheader" THEN Thrown(<<"Unexpected token in JSON">>)
    ELSE Created(classify(tok), tok)

\* ------------------------------------------------------- child extraction
\* A map {id -> ClaimToken} is the sequence of its entries in insertion order;
\* assigning to a key it holds replaces the value and keeps the position.

RECURSIVE putToken(_, _, _)
putToken(map, id, ct) ==
    IF map = <<>> THEN << [id |-> id, ct |-> ct] >>
    ELSE IF Head(map).id = id THEN << [id |-> id, ct |-> ct] >> \o Tail(map)
    ELSE << Head(map) >> \o putToken(Tail(map), id, ct)

Extracted(map) == [ok |-> TRUE, msg |-> <<>>, toks |-> map]

ExtractThrown(msg) == [ok |-> FALSE, msg |-> msg, toks |-> <<>>]

\* ClaimToken.getClaimTokensFromAttestations. An entry is
\* [key, sub, tok]: attestations[key][sub] = tok, or attestations.selfIssued = tok.
RECURSIVE attestationsLoop(_, _)
attestationsLoop(entries, decodedTokens) ==
    IF entries = <<>> THEN Extracted(decodedTokens)
    ELSE LET e == Head(entries) IN
        IF e.key = CLAIMS_SELFISSUED
        THEN attestationsLoop(Tail(entries),
                 putToken(decodedTokens, CLAIMS_SELFISSUED,
                          ClaimTokenOf("selfIssued", e.tok, "ctor")))
        ELSE LET c == create(e.tok) IN
            IF ~c.ok THEN ExtractThrown(c.msg)
            ELSE attestationsLoop(Tail(entries), putToken(decodedTokens, e.sub, c.ct))

getClaimTokensFromAttestations(attestations) == attestationsLoop(attestations, <<>>)

\* ClaimToken.getClaimTokensFromPresentationExchange. A descriptor is
\* [id, path, found]: id and path are "" when missing, found is what
\* jp.query(payload, path) returns, each match [str, tok] (a string or not).
RECURSIVE presentationExchangeLoop(_, _)
presentationExchangeLoop(descriptorMap, decodedTokens) ==
    IF descriptorMap = <<>> THEN Extracted(decodedTokens)
    ELSE LET item == Head(descriptorMap) IN
        IF item.id = ""
        THEN ExtractThrown(<<"descriptor_map without id property">>)
        ELSE IF item.path = ""
        THEN ExtractThrown(<<"descriptor_map with id", item.id, "No path property found.">>)
        ELSE IF Len(item.found) = 0
        THEN ExtractThrown(<<"descriptor_map with id", item.id, "This path", item.path,
                             "did not return a token.">>)
        ELSE IF Len(item.found) > 1
        THEN ExtractThrown(<<"descriptor_map with id", item.id, "This path", item.path,
                             "points to multiple credentails">>)
        ELSE IF item.found[1].str
        THEN LET c == create(item.found[1].tok) IN
            IF ~c.ok THEN ExtractThrown(c.msg)
            ELSE presentationExchangeLoop(Tail(descriptorMap),
                                          putToken(decodedTokens, item.id, c.ct))
        ELSE presentationExchangeLoop(Tail(descriptorMap), decodedTokens)

getClaimTokensFromPresentationExchange(payload) ==
    presentationExchangeLoop(payload.dmap, <<>>)

\* --------------------------------------------------------------- responses
\* IValidationResponse. did is Undefined when unset; payloadObject is set
\* when hasPayload, tokensToValidate when hasTokens, validationResult when
\* hasResult.

NoResult ==
    [did |-> "", contract |-> NoContract, siopJti |-> "",
     idTokens |-> <<>>, hasVcs |-> FALSE, verifiableCredentials |-> <<>>,
     hasVps |-> FALSE, verifiablePresentations |-> <<>>,
     hasSelfIssued |-> FALSE, selfIssued |-> NoClaimToken,
     hasSiop |-> FALSE, siop |-> NoClaimToken,
     verifiablePresentationStatus |-> <<>>]

OkResponse ==
    [result |-> TRUE, status |-> 200, detailedError |-> <<>>, did |-> Undefined,
     hasPayload |-> FALSE, payloadObject |-> BaseTok,
     hasTokens |-> FALSE, tokensToValidate |-> <<>>,
     hasResult |-> FALSE, validationResult |-> NoResult]

ErrorResponse(status, msg) ==
    [OkResponse EXCEPT !.result = FALSE, !.status = status, !.detailedError = msg]

\* ------------------------------------------------------------------- queue
\* ValidationQueue and ValidationQueueItem.

NewItem(id, tok, ct) ==
    [id |-> id, tokenToValidate |-> tok, claimToken |-> ct, isValidated |-> FALSE,
     validationResponse |-> OkResponse, validatedToken |-> NoClaimToken]

enqueueToken(q, id, tok) == Append(q, NewItem(id, tok, NoClaimToken))

enqueueItem(q, id, ct) == Append(q, NewItem(id, ct.tok, ct))

\* The enqueue loop of getTokens walking tokensToValidate from the last key.
enqueueAllReversed(q, toks) ==
    q \o [i \in 1..Len(toks) |->
             NewItem(toks[Len(toks) + 1 - i].id, toks[Len(toks) + 1 - i].ct.tok,
                     toks[Len(toks) + 1 - i].ct)]

RECURSIVE enqueueAll(_, _)
enqueueAll(q, toks) ==
    IF toks = <<>> THEN q
    ELSE enqueueAll(enqueueItem(q, Head(toks).id, Head(toks).ct), Tail(toks))

\* First item not yet validated, in insertion order; 0 when there is none.
getNextTokenRootOnly(q) ==
    IF q # <<>> /\ ~q[1].isValidated THEN 1 ELSE 0

getNextToken(q) ==
    IF \E i \in 1..Len(q) : ~q[i].isValidated
    THEN CHOOSE i \in 1..Len(q) :
             ~q[i].isValidated /\ \A j \in 1..(i - 1) : q[j].isValidated
    ELSE 0

setResult(q, i, resp, ct) ==
    [q EXCEPT ![i] = [@ EXCEPT !.isValidated = TRUE, !.validationResponse = resp,
                                !.validatedToken = ct]]

ItemFailed(item) == ~(item.isValidated /\ item.validationResponse.result)

\* The aggregate: the first failed item's response, else a success.
getResult(q) ==
    IF \E i \in 1..Len(q) : ItemFailed(q[i])
    THEN q[CHOOSE i \in 1..Len(q) :
               ItemFailed(q[i]) /\ \A j \in 1..(i - 1) : ~ItemFailed(q[j])].validationResponse
    ELSE q[1].validationResponse

\* ---------------------------------------------------- SiopTokenValidator
\* expected = [nonce, state], each "" when not configured.

\* SiopValidation.validate: signature and claims of the SIOP. outcome says
\* what the cryptography and the claims gave: "ok", "rejected" (a fresh error
\* response) or "rejectedKept" (an error response that keeps what was decoded).
SiopValidation(tok, outcome) ==
    IF outcome = "ok"
    THEN [OkResponse EXCEPT !.did = tok.did, !.hasPayload = TRUE, !.payloadObject = tok]
    ELSE IF outcome = "rejectedKept"
    THEN [ErrorResponse(403, <<"The signature on the payload in the siop is invalid">>)
             EXCEPT !.did = tok.did, !.hasPayload = TRUE, !.payloadObject = tok]
    ELSE ErrorResponse(403, <<"The signature on the payload in the siop is invalid">>)

\* A step of the SIOP validator: the response, the queue, and whether it threw.
SiopStep(resp, q, threw) == [resp |-> resp, queue |-> q, threw |-> threw]

\* SiopTokenValidator.getTokens, "Check type of SIOP": the type it works with.
\* TokenType.siop is no member of the enum: no case of the switch matches it.
getTokensType(payload) ==
    IF payload.hasAtt THEN "siopPresentationAttestation"
    ELSE IF payload.hasPs THEN "siopPresentationExchange"
    ELSE "siop"

\* SiopTokenValidator.getTokens, the switch: what the extractor of the type gives.
getTokensExtract(type, payload) ==
    IF type = "siopPresentationAttestation"
    THEN getClaimTokensFromAttestations(payload.att)
    ELSE getClaimTokensFromPresentationExchange(payload)

\* SiopTokenValidator.getTokens, after the extractor ran: the catch blocks and
\* the loop that enqueues tokensToValidate.
getTokensEnqueue(validationResponse, q, type, extracted) ==
    IF type = "siop"
    THEN SiopStep(validationResponse,
                  IF validationResponse.hasTokens
                  THEN enqueueAll(q, validationResponse.tokensToValidate) ELSE q,
                  FALSE)
    ELSE IF ~extracted.ok
    THEN SiopStep(ErrorResponse(403, extracted.msg), q, FALSE)
    ELSE SiopStep([validationResponse EXCEPT !.hasTokens = TRUE,
                                             !.tokensToValidate = extracted.toks],
                  enqueueAll(q, extracted.toks), FALSE)

\* SiopTokenValidator.getTokens
getTokens(validationResponse, q) ==
    getTokensEnqueue(validationResponse, q,
        getTokensType(validationResponse.payloadObject),
        getTokensExtract(getTokensType(validationResponse.payloadObject),
                         validationResponse.payloadObject))

\* SiopTokenValidator.validateReplayProtection. Reading payloadObject.nonce of a
\* response without payloadObject throws a TypeError.
validateReplayProtection(validationResponse, q, expected) ==
    IF expected.nonce # "" /\ ~validationResponse.hasPayload
    THEN SiopStep(validationResponse, q, TRUE)
    ELSE IF expected.nonce # "" /\ expected.nonce # validationResponse.payloadObject.nonce
    THEN SiopStep(ErrorResponse(403, <<"Expect nonce", expected.nonce, "does not match",
                                        validationResponse.payloadObject.nonce>>), q, FALSE)
    ELSE IF expected.state # "" /\ ~validationResponse.hasPayload
    THEN SiopStep(validationResponse, q, TRUE)
    ELSE IF expected.state # "" /\ expected.state # validationResponse.payloadObject.state
    THEN SiopStep(ErrorResponse(403, <<"Expect state", expected.state, "does not match",
                                        validationResponse.payloadObject.state>>), q, FALSE)
    ELSE SiopStep(validationResponse, q, FALSE)

\* SiopTokenValidator.validate, the last call: replay protection on what the
\* steps before gave.
validateReplay(got, expected) == validateReplayProtection(got.resp, got.queue, expected)

\* SiopTokenValidator.validate, after SiopValidation returned validationResult.
validateSiop(validationResult, q, expected) ==
    validateReplay(IF validationResult.result THEN getTokens(validationResult, q)
                   ELSE SiopStep(validationResult, q, FALSE),
                   expected)

\* SiopTokenValidator.validate
SiopTokenValidator_validate(q, tok, expected, outcome) ==
    validateSiop(SiopValidation(tok, outcome), q, expected)

\* ------------------------------------------- validators of the other types
\* Each takes the outcome of its own checks (signature, audience, expiry,
\* issuer): "ok" or anything else for a rejection.

ValidatorStep(resp, q) == [resp |-> resp, queue |-> q, threw |-> FALSE]

IdTokenTokenValidator_validate(q, item, outcome) ==
    IF outcome = "ok" THEN ValidatorStep(OkResponse, q)
    ELSE ValidatorStep(ErrorResponse(403, <<"Could not fetch token configuration">>), q)

VerifiableCredentialTokenValidator_validate(q, item, siopDid, outcome) ==
    IF outcome = "ok"
    THEN ValidatorStep([OkResponse EXCEPT !.did = item.tokenToValidate.iss], q)
    ELSE ValidatorStep(ErrorResponse(403, <<"The verifiable credential is not valid">>), q)

SelfIssuedTokenValidator_validate(q, item, outcome) ==
    IF outcome = "ok" THEN ValidatorStep(OkResponse, q)
    ELSE ValidatorStep(ErrorResponse(403, <<"The self issued token is not valid">>), q)

RECURSIVE vcTokens(_, _)
vcTokens(vcs, id) ==
    IF vcs = <<>> THEN <<>>
    ELSE << [id |-> id, ct |-> create(Head(vcs)).ct] >> \o vcTokens(Tail(vcs), id)

\* The presentation's signature, then its iss against the DID of the SIOP
\* (when one is given), then its credentials are enqueued.
VerifiablePresentationTokenValidator_validate(q, item, siopDid, outcome) ==
    LET tok == item.tokenToValidate IN
    IF outcome # "ok"
    THEN ValidatorStep(ErrorResponse(403,
             <<"The signature on the payload in the vp is invalid">>), q)
    ELSE IF siopDid # Undefined /\ tok.iss # siopDid
    THEN ValidatorStep(ErrorResponse(403,
             <<"The DID used for the SIOP", siopDid,
               "is not equal to the DID used for the verifiable presentation", tok.iss>>), q)
    ELSE ValidatorStep([OkResponse EXCEPT !.did = tok.iss, !.hasTokens = TRUE,
                                          !.tokensToValidate = vcTokens(tok.vcs, item.id)],
                       enqueueAll(q, vcTokens(tok.vcs, item.id)))

\* --------------------------------------------------------------- Validator

\* decodeURIComponent, on the segments the model uses.
decodeURIComponent(s) ==
    IF s = "Driving%20License" THEN "Driving License" ELSE s

\* Validator.readContractId. new URL() throws on what is no URL; segs is
\* url.pathname.split('/').
readContractId(contractUrl) ==
    IF ~contractUrl.url THEN [ok |-> FALSE, id |-> Undefined]
    ELSE [ok |-> TRUE, id |-> decodeURIComponent(contractUrl.segs[Len(contractUrl.segs)])]

\* Validator.getClaimToken
getClaimToken(queueItem) ==
    IF queueItem.claimToken # NoClaimToken
    THEN [ok |-> TRUE, msg |-> <<>>, ct |-> queueItem.claimToken]
    ELSE create(queueItem.tokenToValidate)

SiopTypes == {"siopIssuance", "siopPresentationAttestation", "siopPresentationExchange"}

\* One validator call, for the record of calls: the queue item, its type, the
\* DID and contract id handed over, what the validator's own checks gave
\* (outcome), whether the call threw, and the result of the response.
Call(idx, type, did, contractId, outcome, threw, result) ==
    [idx |-> idx, type |-> type, did |-> did, contractId |-> contractId,
     outcome |-> outcome, threw |-> threw, result |-> result]

\* What one pass of the loop of Validator.validate gives.
\*   kind  "return" (validate returns response), "throw" (validate rejects),
\*         "next" (the loop goes on or ends normally)
Pass(kind, response, q, siopDid, siopContractId, toks, calls) ==
    [kind |-> kind, response |-> response, queue |-> q, siopDid |-> siopDid,
     siopContractId |-> siopContractId, tokens |-> toks, calls |-> calls]

\* The switch of Validator.validate: the validator call for a token type.
dispatch(type, q, item, siopDid, expected, outcome) ==
    CASE type = "idToken" -> IdTokenTokenValidator_validate(q, item, outcome)
      [] type = "verifiableCredential" ->
            VerifiableCredentialTokenValidator_validate(q, item, siopDid, outcome)
      [] type = "verifiablePresentation" ->
            VerifiablePresentationTokenValidator_validate(q, item, siopDid, outcome)
      [] type \in SiopTypes ->
            SiopTokenValidator_validate(q, item.tokenToValidate, expected, outcome)
      [] OTHER -> SelfIssuedTokenValidator_validate(q, item, outcome)

\* The DID and contract id handed to the validator of a type.
didArgument(type, siopDid) ==
    IF type \in {"verifiableCredential", "verifiablePresentation"} THEN siopDid
    ELSE IF type = "idToken" THEN "" ELSE Undefined

contractArgument(type, siopContractId) ==
    IF type = "idToken" THEN siopContractId ELSE Undefined

\* The context DID after the validator of a type returned response.
nextSiopDid(type, siopDid, response) ==
    IF type \in SiopTypes THEN response.did ELSE siopDid

\* The loop of Validator.validate with the context DID kept on the instance:
\* it is read from the last token this.tokens holds.
loopStoreSharedDid(q, cur, siopDid, siopContractId, toks, claimToken, step, call) ==
    IF step.threw
    THEN Pass("throw", OkResponse, step.queue, siopDid, siopContractId,
              Append(toks, claimToken), << call >>)
    ELSE Pass("next", step.resp, setResult(step.queue, cur, step.resp, claimToken),
              IF toks = <<>> THEN nextSiopDid(claimToken.type, siopDid, step.resp)
              ELSE toks[Len(toks)].tok.iss,
              siopContractId, Append(toks, claimToken), << call >>)

\* The loop of Validator.validate from the validator's return on: the context
\* DID and contract id, setResult.
loopStore(q, cur, siopDid, siopContractId, toks, claimToken, step, call) ==
    IF step.threw
    THEN Pass("throw", OkResponse, step.queue, siopDid, siopContractId,
              Append(toks, claimToken), << call >>)
    ELSE IF claimToken.type = "siopIssuance" /\ step.resp.result
            /\ ~readContractId(step.resp.payloadObject.contract).ok
    THEN Pass("throw", step.resp, step.queue,
              nextSiopDid(claimToken.type, siopDid, step.resp), siopContractId,
              Append(toks, claimToken), << call >>)
    ELSE Pass("next", step.resp, setResult(step.queue, cur, step.resp, claimToken),
              nextSiopDid(claimToken.type, siopDid, step.resp),
              IF claimToken.type = "siopIssuance" /\ step.resp.result
              THEN readContractId(step.resp.payloadObject.contract).id
              ELSE siopContractId,
              Append(toks, claimToken), << call >>)

\* The loop of Validator.validate with no lookup of the validator before the
\* switch: a type without a validator ends in the default branch.
loopDispatchNoLookup(q, cur, siopDid, siopContractId, toks, tokenValidators, expected, outcome, claimToken, step) ==
    IF claimToken.type \notin tokenValidators
       \/ claimToken.type = "verifiablePresentationStatus"
    THEN Pass("return", ErrorResponse(400, <<claimToken.type, "is not supported">>),
              q, siopDid, siopContractId, Append(toks, claimToken), <<>>)
    ELSE loopStore(q, cur, siopDid, siopContractId, toks, claimToken, step,
                   Call(cur, claimToken.type, didArgument(claimToken.type, siopDid),
                        contractArgument(claimToken.type, siopContractId),
                        outcome, step.threw, step.resp.result))

\* The loop of Validator.validate from the classified token on: the validator
\* is looked up and called.
loopDispatch(q, cur, siopDid, siopContractId, toks, tokenValidators, expected, outcome, claimToken, step) ==
    IF claimToken.type \notin tokenValidators
    THEN Pass("return",
              ErrorResponse(500, <<claimToken.type, "does not has a TokenValidator">>),
              q, siopDid, siopContractId, Append(toks, claimToken), <<>>)
    ELSE IF claimToken.type = "verifiablePresentationStatus"
    THEN Pass("return", ErrorResponse(400, <<claimToken.type, "is not supported">>),
              q, siopDid, siopContractId, Append(toks, claimToken), <<>>)
    ELSE loopStore(q, cur, siopDid, siopContractId, toks, claimToken, step,
                   Call(cur, claimToken.type, didArgument(claimToken.type, siopDid),
                        contractArgument(claimToken.type, siopContractId),
                        outcome, step.threw, step.resp.result))

\* The loop of Validator.validate with a limit on the tokens the instance
\* keeps: a response that depends on this.tokens.
loopClassifiedWithLimit(q, cur, siopDid, siopContractId, toks, tokenValidators, expected, outcome, got) ==
    IF ~got.ok
    THEN Pass("return", ErrorResponse(400, got.msg), q, siopDid, siopContractId, toks, <<>>)
    ELSE IF Len(toks) >= 2
    THEN Pass("return", ErrorResponse(500, <<"too many tokens">>), q, siopDid,
              siopContractId, toks, <<>>)
    ELSE loopDispatch(q, cur, siopDid, siopContractId, toks, tokenValidators, expected,
                      outcome, got.ct,
                      dispatch(got.ct.type, q, q[cur], siopDid, expected, outcome))

\* The loop of Validator.validate once getClaimToken returned or threw (got).
loopClassified(q, cur, siopDid, siopContractId, toks, tokenValidators, expected, outcome, got) ==
    IF ~got.ok
    THEN Pass("return", ErrorResponse(400, got.msg), q, siopDid, siopContractId, toks, <<>>)
    ELSE loopDispatch(q, cur, siopDid, siopContractId, toks, tokenValidators, expected,
                      outcome, got.ct,
                      dispatch(got.ct.type, q, q[cur], siopDid, expected, outcome))

\* One pass of the do-while loop of Validator.validate on queue item cur.
loopBody(q, cur, siopDid, siopContractId, toks, tokenValidators, expected, outcome) ==
    loopClassified(q, cur, siopDid, siopContractId, toks, tokenValidators, expected,
                   outcome, getClaimToken(q[cur]))

\* Validator.isSiop
isSiop(type) == type \in {"siopIssuance", "siopPresentationAttestation"}

ItemsOfType(q, types) == SelectSeq(q, LAMBDA item : item.validatedToken.type \in types)

RECURSIVE tokenMap(_, _)
tokenMap(items, map) ==
    IF items = <<>> THEN map
    ELSE tokenMap(Tail(items), putToken(map, Head(items).id, Head(items).validatedToken))

RECURSIVE validatedTokens(_)
validatedTokens(items) ==
    IF items = <<>> THEN <<>>
    ELSE << Head(items).validatedToken >> \o validatedTokens(Tail(items))

\* Validator.setValidationResult
setValidationResult(q) ==
    LET siops == ItemsOfType(q, {"siopIssuance", "siopPresentationAttestation"})
        vcs == ItemsOfType(q, {"verifiableCredential"})
        vps == ItemsOfType(q, {"verifiablePresentation"})
        ids == ItemsOfType(q, {"idToken"})
        sis == ItemsOfType(q, {"selfIssued"})
        siopDid == IF siops # <<>> THEN siops[1].validationResponse.did ELSE Undefined
        did == IF siopDid \notin {Undefined, ""} THEN siopDid
               ELSE IF vcs # <<>> THEN vcs[1].validatedToken.tok.aud ELSE Undefined
        contract == IF siops # <<>> THEN siops[1].validationResponse.payloadObject.contract
                    ELSE NoContract
        jti == IF siops # <<>> THEN siops[1].validationResponse.payloadObject.jti
               ELSE Undefined
    IN  [did |-> IF did \notin {Undefined, ""} THEN did ELSE "",
         contract |-> contract,
         siopJti |-> IF jti # Undefined THEN jti ELSE "",
         idTokens |-> validatedTokens(ids),
         hasVcs |-> vcs # <<>>, verifiableCredentials |-> tokenMap(vcs, <<>>),
         hasVps |-> vps # <<>>, verifiablePresentations |-> tokenMap(vps, <<>>),
         hasSelfIssued |-> sis # <<>>,
         selfIssued |-> IF sis # <<>> THEN sis[1].validatedToken ELSE NoClaimToken,
         hasSiop |-> siops # <<>>,
         siop |-> IF siops # <<>> THEN siops[1].validatedToken ELSE NoClaimToken,
         verifiablePresentationStatus |-> <<>>]

\* Validator.checkVcsStatus without the test of the feature flag.
checkVcsStatusFlagIgnored(validationResult, statusCheckEnabled) ==
    IF ~validationResult.hasVps
    THEN [kind |-> "return",
          response |-> ErrorResponse(403, <<"No presentations to tests">>)]
    ELSE IF ~validationResult.hasVcs
    THEN [kind |-> "return",
          response |-> ErrorResponse(403, <<"No verifiable credentials to tests">>)]
    ELSE [kind |-> "status",
          response |-> [OkResponse EXCEPT !.hasResult = TRUE,
                                          !.validationResult = validationResult]]

\* Validator.checkVcsStatus with nothing to test counted as a success: a
\* result without presentations or without credentials passes.
checkVcsStatusEmptyPasses(validationResult, statusCheckEnabled) ==
    IF ~statusCheckEnabled \/ ~validationResult.hasVps \/ ~validationResult.hasVcs
    THEN [kind |-> "return",
          response |-> [OkResponse EXCEPT !.hasResult = TRUE,
                                          !.validationResult = validationResult]]
    ELSE [kind |-> "status",
          response |-> [OkResponse EXCEPT !.hasResult = TRUE,
                                          !.validationResult = validationResult]]

\* Validator.checkVcsStatus up to its loop, for the assembled result.
\*   kind "return" with the response, or "status" when status requests follow.
checkVcsStatusOpen(validationResult, statusCheckEnabled) ==
    IF ~statusCheckEnabled
    THEN [kind |-> "return",
          response |-> [OkResponse EXCEPT !.hasResult = TRUE,
                                          !.validationResult = validationResult]]
    ELSE IF ~validationResult.hasVps
    THEN [kind |-> "return",
          response |-> ErrorResponse(403, <<"No presentations to tests">>)]
    ELSE IF ~validationResult.hasVcs
    THEN [kind |-> "return",
          response |-> ErrorResponse(403, <<"No verifiable credentials to tests">>)]
    ELSE [kind |-> "status",
          response |-> [OkResponse EXCEPT !.hasResult = TRUE,
                                          !.validationResult = validationResult]]

\* Validator.validate after the loop, with a result returned whatever the
\* aggregate says.
afterLoopIgnoringAggregate(q, statusCheckEnabled, aggregate) ==
    checkVcsStatusOpen(setValidationResult(q), statusCheckEnabled)

\* Validator.validate after the loop: aggregate is queue.getResult().
afterLoopWith(q, statusCheckEnabled, aggregate) ==
    IF ~aggregate.result THEN [kind |-> "return", response |-> aggregate]
    ELSE checkVcsStatusOpen(setValidationResult(q), statusCheckEnabled)

afterLoop(q, statusCheckEnabled) == afterLoopWith(q, statusCheckEnabled, getResult(q))

\* What one step of the status check gives.
\*   kind "return" (validate returns response), "throw" (validate rejects),
\*        "next" (the check goes on at position st)
StatusStep(kind, resp, st, log) == [kind |-> kind, response |-> resp, status |-> st, log |-> log]

\* Validator.checkVpStatus up to its loop: the public key is read from the
\* key store.
checkVpStatusKey(resp, st) ==
    StatusStep("next", resp, [st EXCEPT !.vc = 1],
               << [kind |-> "key", url |-> "", reply |-> ""] >>)

\* Validator.checkVpStatus going on to the next credential after a reply that
\* is not 2xx or a receipt that is not valid.
checkVpStatusGoingOn(resp, st, outcome) ==
    LET vps == resp.validationResult.verifiablePresentations
        vcs == vps[st.vp].ct.tok.vcs
        vcToValidate == create(vcs[st.vc])
        statusUrl == vcs[st.vc].statusUrl
        post == << [kind |-> "post", url |-> statusUrl, reply |-> outcome] >>
    IN  IF st.vc > Len(vcs)
        THEN IF st.vp < Len(vps)
             THEN StatusStep("next", resp, [st EXCEPT !.vp = @ + 1, !.vc = 0], <<>>)
             ELSE StatusStep("return",
                      [resp EXCEPT !.validationResult.verifiablePresentationStatus =
                                       st.receipts], st, <<>>)
        ELSE IF ~vcToValidate.ok THEN StatusStep("throw", resp, st, <<>>)
        ELSE IF statusUrl = ""
        THEN StatusStep("next", resp, [st EXCEPT !.vc = @ + 1], <<>>)
        ELSE IF outcome = "throw" THEN StatusStep("throw", resp, st, post)
        ELSE IF outcome \in {"notok", "badreceipt"}
        THEN StatusStep("next", resp, [st EXCEPT !.vc = @ + 1], post)
        ELSE StatusStep("next", resp,
                 [st EXCEPT !.vc = @ + 1, !.receipts = Append(@, statusUrl)], post)

\* Validator.checkVpStatus for credential st.vc of presentation st.vp, and the
\* loop of Validator.checkVcsStatus around it. outcome is what the network and
\* the receipt validation give: "ok", "notok" (a reply that is not 2xx),
\* "throw" (fetch rejects), "badreceipt".
checkVpStatus(resp, st, outcome) ==
    LET vps == resp.validationResult.verifiablePresentations
        vcs == vps[st.vp].ct.tok.vcs
        vcToValidate == create(vcs[st.vc])
        statusUrl == vcs[st.vc].statusUrl
        post == << [kind |-> "post", url |-> statusUrl, reply |-> outcome] >>
    IN  IF st.vc > Len(vcs)
        THEN IF st.vp < Len(vps)
             THEN StatusStep("next", resp, [st EXCEPT !.vp = @ + 1, !.vc = 0], <<>>)
             ELSE StatusStep("return",
                      [resp EXCEPT !.validationResult.verifiablePresentationStatus =
                                       st.receipts], st, <<>>)
        ELSE IF ~vcToValidate.ok THEN StatusStep("throw", resp, st, <<>>)
        ELSE IF statusUrl = ""
        THEN StatusStep("next", resp, [st EXCEPT !.vc = @ + 1], <<>>)
        ELSE IF outcome = "throw" THEN StatusStep("throw", resp, st, post)
        ELSE IF outcome = "notok"
        THEN StatusStep("return",
                 ErrorResponse(403, <<"status check could not fetch response from",
                                      statusUrl>>), st, post)
        ELSE IF outcome = "badreceipt"
        THEN StatusStep("return",
                 ErrorResponse(403, <<"The status receipt is not valid">>), st, post)
        ELSE StatusStep("next", resp,
                 [st EXCEPT !.vc = @ + 1, !.receipts = Append(@, statusUrl)], post)

\* ------------------------------------------------------------------ inputs
\* The tokens a caller may hand to validate, and the configurations of the
\* builder.

SeqsUpTo(S, n) == UNION {[1..k -> S] : k \in 0..n}

Copies(x, n) == [i \in 1..n |-> x]

ContractUrl ==
    [present |-> TRUE, url |-> TRUE, segs |-> <<"", "v1.0", "contracts", "DrivingLicense">>]

NotAUrl == [present |-> TRUE, url |-> FALSE, segs |-> <<>>]

\* A contract URL that ends in '/', and one whose last segment is URL-encoded.
TrailingSlashUrl ==
    [present |-> TRUE, url |-> TRUE, segs |-> <<"", "v1.0", "contracts", "DrivingLicense", "">>]

EncodedUrl ==
    [present |-> TRUE, url |-> TRUE, segs |-> <<"", "v1.0", "contracts", "Driving%20License">>]

VcTok(statusUrl) ==
    [BaseTok EXCEPT !.iss = "did:issuer", !.aud = "did:user", !.vc = TRUE,
                    !.statusUrl = statusUrl]

VpTok(iss, vcs) == [BaseTok EXCEPT !.iss = iss, !.vp = TRUE, !.vcs = vcs]

IdTok == [BaseTok EXCEPT !.iss = "did:idp"]

UnsignedTok == [BaseTok EXCEPT !.sig = "blank"]

SelfIssuedClaims == [BaseTok EXCEPT !.sig = "none", !.iss = Undefined]

SiopTok ==
    [BaseTok EXCEPT !.iss = TOKEN_SI_ISS, !.did = "did:user", !.aud = "did:verifier",
                    !.nonce = "n1", !.state = "s1", !.jti = "jti1"]

\* A SIOP nested in another token: an issuance SIOP signed by another DID.
InnerSiopTok ==
    [SiopTok EXCEPT !.did = "did:other", !.contract = ContractUrl, !.jti = "jti2"]

\* A token with the SIOP issuer and none of the SIOP markers.
UnrecognisedSiopTok == SiopTok

Presentations ==
    {VpTok("did:user", Copies(VcTok("https://status.example/1"), MaxVcs)),
     VpTok("did:user", << VcTok("") >>),
     VpTok("did:other", Copies(VcTok("https://status.example/1"), MaxVcs))}

AttestationEntries ==
    {[key |-> "idTokens", sub |-> "a", tok |-> IdTok],
     [key |-> CLAIMS_SELFISSUED, sub |-> "", tok |-> SelfIssuedClaims]}
    \cup {[key |-> "presentations", sub |-> k, tok |-> t] :
             k \in {"a", "b"},
             t \in Presentations \cup {InnerSiopTok, UnrecognisedSiopTok}}

\* The entries of a JSON object: no key twice, the sub-keys of one key together.
WellFormedAttestations(att) ==
    /\ \A i, j \in 1..Len(att) :
          i # j => (att[i].key # att[j].key \/ att[i].sub # att[j].sub)
    /\ \A i, j \in 1..Len(att) : att[i].key = CLAIMS_SELFISSUED /\ att[j].key = CLAIMS_SELFISSUED
                                    => i = j
    /\ \A i, j, k \in 1..Len(att) :
          (i < j /\ j < k /\ att[i].key = att[k].key) => att[j].key = att[i].key

Attestations == {att \in SeqsUpTo(AttestationEntries, MaxChildren) : WellFormedAttestations(att)}

Found(tok) == << [str |-> TRUE, tok |-> tok] >>

Descriptors ==
    {[id |-> "", path |-> "$.tokens.presentations", found |-> <<>>],
     [id |-> "a", path |-> "", found |-> <<>>],
     [id |-> "a", path |-> "$.tokens.none", found |-> <<>>],
     [id |-> "a", path |-> "$.tokens.*", found |-> Found(IdTok) \o Found(IdTok)],
     [id |-> "a", path |-> "$.tokens", found |-> << [str |-> FALSE, tok |-> BaseTok] >>],
     [id |-> "a", path |-> "$.tokens.unsigned", found |-> Found(UnsignedTok)],
     [id |-> "a", path |-> "$.tokens.siop", found |-> Found(UnrecognisedSiopTok)]}
    \cup {[id |-> k, path |-> "$.tokens.presentations", found |-> Found(t)] :
             k \in {"a", "b"}, t \in Presentations}

DescriptorMaps == SeqsUpTo(Descriptors, MaxChildren)

\* Every combination of the shape markers, with nothing nested.
MarkerTokens ==
    {[BaseTok EXCEPT !.iss = i, !.contract = c, !.hasPs = p, !.hasAtt = a, !.vc = c1,
                     !.vp = p1, !.sig = s, !.did = "did:user", !.nonce = "n1",
                     !.state = "s1", !.aud = "did:user"] :
        i \in {TOKEN_SI_ISS, "did:user"}, c \in {NoContract, ContractUrl},
        p \in BOOLEAN, a \in BOOLEAN, c1 \in BOOLEAN, p1 \in BOOLEAN,
        s \in {"none", "blank", "signed"}}

UndecodableTokens ==
    {[SiopTok EXCEPT !.dec = d, !.hasAtt = a] : d \in {"badpayload", "badheader"},
                                                 a \in BOOLEAN}

\* A presentation that holds two different credentials.
TwoCredentialsVp ==
    VpTok("did:user", << VcTok(""), VcTok("https://status.example/1") >>)

RootTokens ==
    MarkerTokens \cup UndecodableTokens
    \cup {[SiopTok EXCEPT !.hasAtt = TRUE, !.att = att] : att \in Attestations}
    \cup {[SiopTok EXCEPT !.hasPs = TRUE, !.dmap = dm] : dm \in DescriptorMaps}
    \cup {[SiopTok EXCEPT !.contract = c, !.hasAtt = TRUE, !.att = att, !.hasPs = TRUE,
                          !.dmap = dm] :
             c \in {NoContract, ContractUrl, NotAUrl},
             att \in {a \in Attestations : Len(a) = 1},
             dm \in {d \in DescriptorMaps : Len(d) = 1 /\ d[1].id = "b"}}
    \cup {[SiopTok EXCEPT !.contract = c] : c \in {TrailingSlashUrl, EncodedUrl}}
    \cup {VpTok(i, Copies(VcTok("https://status.example/1"), MaxVcs)) :
             i \in {"did:user", "did:other"}}
    \cup {TwoCredentialsVp}

NoExpected == [nonce |-> "", state |-> ""]

Expecteds ==
    {NoExpected, [nonce |-> "n1", state |-> "s1"], [nonce |-> "n2", state |-> ""],
     [nonce |-> "n1", state |-> "s2"]}

AllValidators == TokenTypes \ {"verifiablePresentationStatus"}

Configurations ==
    {[tokenValidators |-> AllValidators, expected |-> e, statusCheck |-> f] :
        e \in Expecteds, f \in BOOLEAN}
    \cup {[tokenValidators |-> AllValidators \ {t}, expected |-> NoExpected,
           statusCheck |-> FALSE] :
             t \in {"verifiableCredential", "siopPresentationExchange"}}

\* ------------------------------------------------------------------- state

\* ------------------------------------------------------- ClaimToken object
\* The object new ClaimToken() builds: _type, _rawToken, _tokenHeader,
\* _decodedToken, _configuration. made is FALSE where no object exists.

\* JSON.parse(base64url.decode(parts[1])): the payload's claims.
getTokenPayload(token) == [f \in (DOMAIN token) \ {"dec", "sig", "did"} |-> token[f]]

\* JSON.parse(base64url.decode(parts[0])): the header names the signing key.
getTokenHeader(token) == [kid |-> token.did]

NoObject ==
    [made |-> FALSE, type |-> "none", rawToken |-> BaseTok,
     tokenHeader |-> getTokenHeader(BaseTok), decodedToken |-> getTokenPayload(BaseTok),
     configuration |-> ""]

\* ClaimToken.decode: throws on a token that has no two decodable parts.
decode(rawToken) ==
    IF rawToken.dec # "ok"
    THEN [ok |-> FALSE, tokenHeader |-> NoObject.tokenHeader,
          decodedToken |-> NoObject.decodedToken]
    ELSE [ok |-> TRUE, tokenHeader |-> getTokenHeader(rawToken),
          decodedToken |-> getTokenPayload(rawToken)]

\* The constructor, called with a string token: throws (no object is made) on
\* a type name that is no TokenType, and when decode throws.
ClaimToken_new(typeName, token) ==
    IF typeName \notin TokenTypes \/ ~decode(token).ok THEN NoObject
    ELSE [made |-> TRUE, type |-> typeName, rawToken |-> token,
          tokenHeader |-> decode(token).tokenHeader,
          decodedToken |-> decode(token).decodedToken, configuration |-> ""]

\* set rawToken(value).
setRawToken(object, value) == [object EXCEPT !.rawToken = value]

VARIABLES
    tokenValidators,    \* builder: the types that have a validator
    expected,           \* builder: the IExpectedSiop of the SIOP validator
    statusCheckEnabled, \* builder: featureVerifiedCredentialsStatusCheckEnabled
    tokens,             \* Validator.tokens
    pc,                 \* where validate() is: idle, loop, drained, status, returned, rejected
    queue,              \* validate: queue
    queueItem,          \* validate: index of queueItem in queue, 0 when undefined
    siopDid,            \* validate: siopDid
    siopContractId,     \* validate: siopContractId
    response,           \* validate: response, and what validate returned
    calls,              \* the validator calls made, in order
    status,             \* checkVcsStatus: [vp, vc, receipts], the position in the maps
    statusLog,          \* the key-store reads and status requests made, in order
    parked,             \* the locals of a second validate() call in flight on the instance
    claimToken          \* a ClaimToken object in the hands of a caller

vars ==
    <<tokenValidators, expected, statusCheckEnabled, tokens, pc, queue, queueItem, siopDid,
      siopContractId, response, calls, status, statusLog, parked, claimToken>>

config == <<tokenValidators, expected, statusCheckEnabled>>

NoStatus == [vp |-> 0, vc |-> 0, receipts |-> <<>>]

\* The locals of a validate() call: where it is, and what it holds.
Frame(fpc, fqueue, fqueueItem, fsiopDid, fsiopContractId, fresponse, fcalls, fstatus, flog) ==
    [pc |-> fpc, queue |-> fqueue, queueItem |-> fqueueItem, siopDid |-> fsiopDid,
     siopContractId |-> fsiopContractId, response |-> fresponse, calls |-> fcalls,
     status |-> fstatus, statusLog |-> flog]

\* A call that has not started.
NoCall == Frame("idle", <<>>, 0, Undefined, Undefined, OkResponse, <<>>, NoStatus, <<>>)

Init ==
    /\ \E c \in Configurations :
          /\ tokenValidators = c.tokenValidators
          /\ expected = c.expected
          /\ statusCheckEnabled = c.statusCheck
    /\ tokens = <<>>
    /\ pc = "idle"
    /\ queue = <<>>
    /\ queueItem = 0
    /\ siopDid = Undefined
    /\ siopContractId = Undefined
    /\ response = OkResponse
    /\ calls = <<>>
    /\ status = NoStatus
    /\ statusLog = <<>>
    /\ parked = NoCall
    /\ claimToken = NoObject

\* Validator.validate, up to the loop: the queue is seeded with the root token.
Validate ==
    /\ pc = "idle"
    /\ \E token \in RootTokens :
          /\ queue' = enqueueToken(<<>>, "siop", token)
          /\ queueItem' = getNextToken(queue')
    /\ pc' = "loop"
    /\ UNCHANGED <<config, claimToken, tokens, siopDid, siopContractId, response, calls, status, statusLog,
                 parked>>

Outcomes == {"ok", "rejected", "rejectedKept"}

\* The effect of one pass of the loop on the state.
ApplyPass(pass) ==
    /\ queue' = pass.queue
    /\ siopDid' = pass.siopDid
    /\ siopContractId' = pass.siopContractId
    /\ tokens' = pass.tokens
    /\ calls' = calls \o pass.calls
    /\ response' = pass.response
    /\ queueItem' = IF pass.kind = "next" THEN getNextToken(pass.queue) ELSE queueItem
    /\ pc' = IF pass.kind = "return" THEN "returned"
             ELSE IF pass.kind = "throw" THEN "rejected"
             ELSE IF getNextToken(pass.queue) = 0 THEN "drained"
             ELSE "loop"

\* One pass of the loop: classify the item, call its validator, store the result.
LoopPass ==
    /\ pc = "loop"
    /\ \E outcome \in Outcomes :
          \E pass \in {loopBody(queue, queueItem, siopDid, siopContractId, tokens, tokenValidators, expected, outcome)} :
              ApplyPass(pass)
    /\ UNCHANGED <<config, claimToken, status, statusLog, parked>>

ApplyAfterLoop(after) ==
    /\ response' = after.response
    /\ pc' = IF after.kind = "return" THEN "returned" ELSE "status"
    /\ status' = IF after.kind = "return" THEN status
                 ELSE [vp |-> 1, vc |-> 0, receipts |-> <<>>]

\* The queue has drained: aggregate, assemble the result, open the status check.
Drained ==
    /\ pc = "drained"
    /\ ApplyAfterLoop(afterLoop(queue, statusCheckEnabled))
    /\ UNCHANGED <<config, claimToken, tokens, queue, queueItem, siopDid, siopContractId, calls, statusLog,
                 parked>>

StatusOutcomes == {"ok", "notok", "throw", "badreceipt"}

ApplyStatusStep(step) ==
    /\ response' = step.response
    /\ status' = step.status
    /\ statusLog' = statusLog \o step.log
    /\ pc' = IF step.kind = "return" THEN "returned"
             ELSE IF step.kind = "throw" THEN "rejected"
             ELSE "status"

\* The status check: one key-store read per presentation, one request per
\* credential that names a status URL.
CheckStatus ==
    /\ pc = "status"
    /\ \E outcome \in StatusOutcomes :
          ApplyStatusStep(IF status.vc = 0 THEN checkVpStatusKey(response, status)
                          ELSE checkVpStatus(response, status, outcome))
    /\ UNCHANGED <<config, claimToken, tokens, queue, queueItem, siopDid, siopContractId, calls, parked>>

Next == Validate \/ LoopPass \/ Drained \/ CheckStatus

Spec == Init /\ [][Next]_vars

\* ------------------------------------------- two calls on one instance
\* A second validate() call on the same Validator instance. The locals of
\* validate (queue, queueItem, siopDid, siopContractId, response) belong to a
\* call; this.tokens belongs to the instance. One call runs at a time; at an
\* await the other call may go on, or a new call may start while the other has
\* finished or is still in flight.

CallTokens ==
    {IdTok, UnrecognisedSiopTok, InnerSiopTok,
     VpTok("did:user", Copies(VcTok("https://status.example/1"), MaxVcs)),
     [SiopTok EXCEPT !.hasAtt = TRUE,
                     !.att = << [key |-> "idTokens", sub |-> "a", tok |-> IdTok],
                                [key |-> "presentations", sub |-> "b",
                                 tok |-> VpTok("did:user", << VcTok("") >>)] >>]}

CallConfigurations ==
    {[tokenValidators |-> AllValidators, expected |-> e, statusCheck |-> TRUE] :
        e \in {NoExpected, [nonce |-> "n2", state |-> ""]}}

InitCalls ==
    /\ Init
    /\ [tokenValidators |-> tokenValidators, expected |-> expected,
        statusCheck |-> statusCheckEnabled] \in CallConfigurations

\* Validator.validate, up to the loop, for one of the tokens of the callers.
ValidateCall ==
    /\ pc = "idle"
    /\ \E token \in CallTokens :
          /\ queue' = enqueueToken(<<>>, "siop", token)
          /\ queueItem' = getNextToken(queue')
    /\ pc' = "loop"
    /\ UNCHANGED <<config, claimToken, tokens, siopDid, siopContractId, response, calls, status, statusLog,
                   parked>>

\* The call that runs is suspended at an await and the other call goes on (or
\* starts): the two sets of locals change places, this.tokens is shared.
Switch ==
    /\ parked' = Frame(pc, queue, queueItem, siopDid, siopContractId, response, calls,
                       status, statusLog)
    /\ pc' = parked.pc
    /\ queue' = parked.queue
    /\ queueItem' = parked.queueItem
    /\ siopDid' = parked.siopDid
    /\ siopContractId' = parked.siopContractId
    /\ response' = parked.response
    /\ calls' = parked.calls
    /\ status' = parked.status
    /\ statusLog' = parked.statusLog
    /\ UNCHANGED <<config, claimToken, tokens>>

NextCalls == ValidateCall \/ LoopPass \/ Drained \/ CheckStatus \/ Switch

SpecCalls == InitCalls /\ [][NextCalls]_vars

\* ------------------------------------------------------------------ claims

Returned == pc = "returned"

\* The validated items of the queue whose response failed.
FailedItems == {i \in 1..Len(queue) : queue[i].isValidated /\ ~queue[i].validationResponse.result}

\* C1: ClaimToken.create classifies by payload shape in a fixed order. Every
\* token that create built has the type of the first rule its payload meets:
\* with the SIOP issuer contract, then presentation_submission, then
\* attestations; otherwise vc, then vp, then a non-blank signature (idToken),
\* else selfIssued.
C1_ClassificationOrder ==
    \A i \in 1..Len(tokens) :
        LET type == tokens[i].type
            p == tokens[i].tok
            siop == p.iss = TOKEN_SI_ISS
        IN  tokens[i].via = "create" =>
            /\ (siop /\ p.contract.present) => type = "siopIssuance"
            /\ (siop /\ ~p.contract.present /\ p.hasPs) => type = "siopPresentationExchange"
            /\ (siop /\ ~p.contract.present /\ ~p.hasPs /\ p.hasAtt)
                  => type = "siopPresentationAttestation"
            /\ (siop /\ ~p.contract.present /\ ~p.hasPs) => p.hasAtt
            /\ (~siop /\ p.vc) => type = "verifiableCredential"
            /\ (~siop /\ ~p.vc /\ p.vp) => type = "verifiablePresentation"
            /\ (~siop /\ ~p.vc /\ ~p.vp /\ p.sig = "signed") => type = "idToken"
            /\ (~siop /\ ~p.vc /\ ~p.vp /\ p.sig # "signed") => type = "selfIssued"

\* C1 witness: a token with the SIOP issuer that carries every marker at once
\* was classified, and the run returned.
C1_Witness ==
    /\ \E i \in 1..Len(tokens) :
          /\ tokens[i].via = "create" /\ tokens[i].type = "siopIssuance"
          /\ tokens[i].tok.hasPs /\ tokens[i].tok.hasAtt /\ tokens[i].tok.vc /\ tokens[i].tok.vp
    /\ pc = "returned"

\* C2: validate never returns result=true when a dispatched token failed: a
\* returned success means every item of the queue was validated with
\* result=true and every validator call gave result=true.
C2_NoSuccessAfterFailure ==
    (Returned /\ response.result) =>
        /\ \A i \in 1..Len(queue) :
              queue[i].isValidated /\ queue[i].validationResponse.result
        /\ \A k \in 1..Len(calls) : calls[k].result /\ ~calls[k].threw

\* C2 witness: a run of a SIOP, a presentation and its credential returned
\* success.
C2_Witness ==
    /\ Returned /\ response.result
    /\ Len(queue) >= 3
    /\ \E i \in 1..Len(queue) : queue[i].validatedToken.type = "verifiableCredential"

FirstFailed == CHOOSE i \in FailedItems : \A j \in FailedItems : i <= j

\* C3: when at least one queue item failed, validate returns the response of
\* the first failed item in insertion order, unchanged; and the aggregate of
\* a drained queue succeeds exactly when every item's response succeeded.
C3_FirstFailureReturned ==
    /\ (Returned /\ FailedItems # {}) =>
          response = queue[FirstFailed].validationResponse
    /\ pc = "drained" =>
          (getResult(queue).result <=>
              \A i \in 1..Len(queue) : queue[i].validationResponse.result)

\* C4: the first failure terminates the run: once a validator has returned
\* result=false no further item is dispatched, so only the last call made
\* can have failed.
C4_FirstFailureTerminates ==
    \A k \in 1..(Len(calls) - 1) : calls[k].result

\* The item validate stopped at, and its classification.
StoppedAt == queueItem >= 1 /\ pc \notin {"idle", "loop"}

Unclassifiable(tok) ==
    \/ tok.dec # "ok"
    \/ tok.iss = TOKEN_SI_ISS /\ ~tok.contract.present /\ ~tok.hasPs /\ ~tok.hasAtt

\* C6: a root token that cannot be decoded or classified makes validate
\* return result=false, status 400 and the thrown message, with no validator
\* called; a decodable token with the SIOP issuer and none of contract,
\* presentation_submission, attestations gives 'SIOP was not recognized.'.
C6_UnclassifiableRoot ==
    (pc \notin {"idle", "loop"} /\ Unclassifiable(queue[1].tokenToValidate)) =>
        /\ Returned
        /\ ~response.result
        /\ response.status = 400
        /\ ~response.hasResult
        /\ calls = <<>>
        /\ Len(queue) = 1 /\ ~queue[1].isValidated
        /\ response.detailedError =
              IF queue[1].tokenToValidate.dec # "badpayload"
                 /\ queue[1].tokenToValidate.iss = TOKEN_SI_ISS
                 /\ ~queue[1].tokenToValidate.contract.present
                 /\ ~queue[1].tokenToValidate.hasPs /\ ~queue[1].tokenToValidate.hasAtt
              THEN <<"SIOP was not recognized.">>
              ELSE <<"Unexpected token in JSON">>

\* C6 witness: a decodable root with the SIOP issuer and no SIOP marker was
\* rejected with 'SIOP was not recognized.'.
C6_Witness ==
    /\ Returned
    /\ response.status = 400
    /\ response.detailedError = <<"SIOP was not recognized.">>
    /\ queue[1].tokenToValidate.dec = "ok"
    /\ queue[1].tokenToValidate.vp

\* The response the SIOP call k gave: stored in its item, or still in
\* response when validate threw before storing it.
CallResponse(k) ==
    IF queue[calls[k].idx].isValidated THEN queue[calls[k].idx].validationResponse
    ELSE response

NonceDiffers(p) == expected.nonce # "" /\ expected.nonce # p.nonce

StateDiffers(p) == expected.state # "" /\ expected.state # p.state

\* C7: replay protection. For a SIOP that passed signature and claim
\* validation: if the expected nonce (or state) is configured and differs from
\* the payload's, the SIOP validator returns result=false, status=403 and an
\* error naming the expected and the actual value; if neither differs it
\* returns, and the validation succeeded or failed as the extraction did.
C7_ReplayProtection ==
    \A k \in 1..Len(calls) :
        LET p == queue[calls[k].idx].tokenToValidate IN
        (calls[k].type \in SiopTypes /\ calls[k].outcome = "ok") =>
            /\ ~calls[k].threw
            /\ (NonceDiffers(p) \/ StateDiffers(p)) =>
                  /\ ~CallResponse(k).result
                  /\ CallResponse(k).status = 403
                  /\ CallResponse(k).detailedError \in
                        {<<"Expect nonce", expected.nonce, "does not match", p.nonce>>,
                         <<"Expect state", expected.state, "does not match", p.state>>}
            /\ ~(NonceDiffers(p) \/ StateDiffers(p)) =>
                  \/ CallResponse(k).result /\ CallResponse(k).payloadObject = p
                  \/ ~CallResponse(k).result /\ CallResponse(k).status = 403

RootIsSiop == Len(calls) >= 1 /\ calls[1].idx = 1 /\ calls[1].type \in SiopTypes

\* C8: DID continuity. In a run rooted at a SIOP every presentation validator
\* is called with the DID the SIOP resolved to, and a presentation valid in
\* itself whose iss differs from that DID makes validate return result=false,
\* status=403 and the error naming both DIDs.
C8_DidContinuity ==
    RootIsSiop =>
        \A k \in 1..Len(calls) :
            LET vp == queue[calls[k].idx].tokenToValidate
                rootDid == queue[1].tokenToValidate.did
            IN  calls[k].type = "verifiablePresentation" =>
                /\ calls[k].did = rootDid
                /\ (Returned /\ calls[k].outcome = "ok" /\ vp.iss # rootDid) =>
                      /\ ~response.result
                      /\ response.status = 403
                      /\ response.detailedError =
                            <<"The DID used for the SIOP", rootDid,
                              "is not equal to the DID used for the verifiable presentation",
                              vp.iss>>

\* C9: the subject DID handed to every presentation and credential validator
\* is the DID the root SIOP established, and once the root SIOP has been
\* validated the context DID stays that DID for the rest of the run.
C9_ContextDidFixed ==
    (RootIsSiop /\ queue[1].isValidated) =>
        /\ siopDid = queue[1].validationResponse.did
        /\ \A k \in 1..Len(calls) :
              calls[k].type \in {"verifiablePresentation", "verifiableCredential"} =>
                  calls[k].did = queue[1].validationResponse.did

\* C10: a run holds exactly one SIOP: a nested token that classifies as a
\* SIOP type is never handed to the SIOP validator, and a run whose queue
\* holds one returns result=false.
C10_NestedSiopRejected ==
    /\ \A k \in 1..Len(calls) : calls[k].idx > 1 => calls[k].type \notin SiopTypes
    /\ (Returned /\ \E i \in 2..Len(queue) : queue[i].claimToken.type \in SiopTypes) =>
          ~response.result

\* The SIOP calls that got past SiopValidation and ran the extractor of the
\* presentation exchange.
ExchangeCalls ==
    {k \in 1..Len(calls) :
        /\ calls[k].type \in SiopTypes /\ calls[k].outcome = "ok"
        /\ getTokensType(queue[calls[k].idx].tokenToValidate) = "siopPresentationExchange"}

\* A descriptor_map entry whose path resolves to exactly one string.
ResolvesToOneString(d) ==
    d.id # "" /\ d.path # "" /\ Len(d.found) = 1 /\ d.found[1].str

\* C11: presentation-exchange extraction emits one child keyed by the entry's
\* id for every entry whose path resolves to exactly one string (a token that
\* classifies), and fails with an error when some entry has no id, no path,
\* no match, several matches or a single match that is not a string.
C11_PresentationExchangeExtraction ==
    \A k \in ExchangeCalls :
        LET dmap == queue[calls[k].idx].tokenToValidate.dmap
            r == getClaimTokensFromPresentationExchange(queue[calls[k].idx].tokenToValidate)
        IN  /\ (\E i \in 1..Len(dmap) : ~ResolvesToOneString(dmap[i])) => ~r.ok
            /\ (\A i \in 1..Len(dmap) :
                   ResolvesToOneString(dmap[i]) /\ create(dmap[i].found[1].tok).ok) =>
                  /\ r.ok
                  /\ \A i \in 1..Len(dmap) :
                        \E j \in 1..Len(r.toks) : r.toks[j].id = dmap[i].id

\* What the extractor of SIOP call k gives for the call's token.
ExtractionOf(k) ==
    getTokensExtract(getTokensType(queue[calls[k].idx].tokenToValidate),
                     queue[calls[k].idx].tokenToValidate)

\* The SIOP calls that got past SiopValidation and whose extractor threw.
FailedExtractionCalls ==
    {k \in 1..Len(calls) :
        /\ calls[k].type \in SiopTypes /\ calls[k].outcome = "ok"
        /\ getTokensType(queue[calls[k].idx].tokenToValidate) # "siop"
        /\ ~ExtractionOf(k).ok}

\* C12: when a SIOP passes signature and claim validation and its child
\* extraction throws, the SIOP validator does not throw: it returns
\* result=false, status=403 and the extractor's message, whatever nonce or
\* state is expected.
C12_ExtractionFailureReturned ==
    \A k \in FailedExtractionCalls :
        /\ ~calls[k].threw
        /\ ~CallResponse(k).result
        /\ CallResponse(k).status = 403
        /\ CallResponse(k).detailedError = ExtractionOf(k).msg

\* The run is rooted at a presentation-exchange SIOP that passed SiopValidation
\* and whose extraction gave no signed token.
NoSignedTokenObtained ==
    /\ 1 \in ExchangeCalls /\ calls[1].idx = 1
    /\ ExtractionOf(1).ok
    /\ \A j \in 1..Len(ExtractionOf(1).toks) :
          ~tokenSignature(ExtractionOf(1).toks[j].ct.tok)

\* C13: a presentation-exchange SIOP from which no signed token is obtained
\* (the paths resolve to a non-string value or to unsigned self-issued
\* content) is rejected with 'No signed token found during validation'.
C13_NoSignedTokenRejected ==
    (Returned /\ NoSignedTokenObtained) =>
        /\ ~response.result
        /\ response.detailedError = <<"No signed token found during validation">>

\* The SIOP calls that got past SiopValidation and whose attestations were
\* extracted without a throw.
AttestationCalls ==
    {k \in 1..Len(calls) :
        /\ calls[k].type \in SiopTypes /\ calls[k].outcome = "ok"
        /\ getTokensType(queue[calls[k].idx].tokenToValidate) = "siopPresentationAttestation"
        /\ ExtractionOf(k).ok}

\* C14: attestation extraction emits every contained token: as many children
\* as the attestations hold tokens (selfIssued, and every entry of every other
\* key's sub-map), and in a run that succeeds each of them was enqueued and
\* validated.
C14_AttestationsAllEmitted ==
    \A k \in AttestationCalls :
        LET att == queue[calls[k].idx].tokenToValidate.att IN
        /\ Len(ExtractionOf(k).toks) = Len(att)
        /\ (Returned /\ response.result) =>
              \A i \in 1..Len(att) :
                  \E j \in 1..Len(queue) :
                      /\ queue[j].isValidated
                      /\ queue[j].tokenToValidate = att[i].tok

\* C15: for a token classified as siopIssuance the SIOP validator appends no
\* child item to the queue and sets no tokensToValidate.
C15_IssuanceNoChildren ==
    /\ (RootIsSiop /\ calls[1].type = "siopIssuance") => Len(queue) = 1
    /\ \A k \in 1..Len(calls) :
          (calls[k].type = "siopIssuance" /\ ~calls[k].threw) =>
              ~CallResponse(k).hasTokens

\* C16: dispatch order. Items are dispatched strictly in insertion order, one
\* at a time: the k-th call is for the k-th item, every item before it has its
\* result stored, and the children of the root SIOP sit behind it in the
\* order the extractor gave them, so they are dispatched in that order.
C16_DispatchOrder ==
    /\ \A k \in 1..Len(calls) :
          /\ calls[k].idx = k
          /\ \A i \in 1..(k - 1) : queue[i].isValidated
    /\ (RootIsSiop /\ calls[1].outcome = "ok"
        /\ getTokensType(queue[1].tokenToValidate) # "siop" /\ ExtractionOf(1).ok) =>
          /\ Len(queue) >= 1 + Len(ExtractionOf(1).toks)
          /\ \A j \in 1..Len(ExtractionOf(1).toks) :
                /\ queue[1 + j].id = ExtractionOf(1).toks[j].id
                /\ queue[1 + j].claimToken = ExtractionOf(1).toks[j].ct

\* C16 witness: a SIOP with two children under different ids, both of them
\* dispatched after it.
C16_Witness ==
    /\ Returned /\ RootIsSiop /\ Len(calls) >= 3
    /\ queue[1].isValidated /\ queue[1].validationResponse.hasTokens
    /\ Len(queue[1].validationResponse.tokensToValidate) = 2
    /\ queue[2].id # queue[3].id
    /\ queue[2].claimToken.type # queue[3].claimToken.type

\* The last non-empty segment of a path.
LastNonEmptySegment(segs) ==
    segs[CHOOSE i \in 1..Len(segs) :
            segs[i] # "" /\ \A j \in (i + 1)..Len(segs) : segs[j] = ""]

\* C17: readContractId gives the URL-decoded last non-empty segment of the
\* contract URL's path, with or without a trailing '/': after an issuance
\* SIOP was validated the contract id of the run is that segment.
C17_ReadContractId ==
    (/\ Len(calls) = 1 /\ calls[1].type = "siopIssuance"
     /\ queue[1].isValidated /\ queue[1].validationResponse.result
     /\ queue[1].tokenToValidate.contract.url) =>
        siopContractId =
            decodeURIComponent(LastNonEmptySegment(queue[1].tokenToValidate.contract.segs))

\* C18: result assembly. A successful run rooted at a SIOP of any flavour
\* returns a validationResult whose did is the SIOP's resolved DID, whose siop
\* is the SIOP's claim token, and whose contract and siopJti are the contract
\* and jti of the SIOP's payload.
C18_ResultAssembly ==
    (Returned /\ response.result /\ response.hasResult /\ RootIsSiop) =>
        /\ queue[1].validationResponse.did \notin {Undefined, ""} =>
              response.validationResult.did = queue[1].validationResponse.did
        /\ response.validationResult.hasSiop
        /\ response.validationResult.siop = queue[1].validatedToken
        /\ response.validationResult.contract = queue[1].tokenToValidate.contract
        /\ response.validationResult.siopJti =
              IF queue[1].tokenToValidate.jti = Undefined THEN ""
              ELSE queue[1].tokenToValidate.jti

\* The loop has drained the queue and every item's stored response succeeded.
AggregateSucceeded ==
    /\ pc \notin {"idle", "loop"} /\ queueItem = 0
    /\ \A i \in 1..Len(queue) :
          queue[i].isValidated /\ queue[i].validationResponse.result

\* C19: with the status-check feature disabled the status step makes no
\* key-store read, no signature and no request, and every run whose queue
\* aggregate succeeded returns result=true, status=200 and the assembled
\* validationResult.
C19_StatusCheckDisabled ==
    ~statusCheckEnabled =>
        /\ statusLog = <<>>
        /\ pc # "status"
        /\ (AggregateSucceeded /\ pc # "drained") =>
              /\ Returned
              /\ response.result
              /\ response.status = 200
              /\ response.hasResult
              /\ response.validationResult = setValidationResult(queue)

\* C19 witness: with the feature disabled a run holding a presentation whose
\* credential names a status URL returned successfully.
C19_Witness ==
    /\ ~statusCheckEnabled /\ Returned /\ response.result
    /\ response.validationResult.hasVps
    /\ \E i \in 1..Len(queue) :
          /\ queue[i].validatedToken.type = "verifiableCredential"
          /\ queue[i].tokenToValidate.statusUrl # ""

\* The status requests that got a reply that is not 2xx or a receipt that is
\* not valid.
FailedStatusRequests ==
    {n \in 1..Len(statusLog) :
        statusLog[n].kind = "post" /\ statusLog[n].reply \in {"notok", "badreceipt"}}

\* C20: a reply that is not 2xx from a credential's status URL makes the run
\* fail with result=false, status=403 and 'status check could not fetch
\* response from <url>'; the first failing request or receipt is the last
\* request sent, and validate returns the failure without a validationResult.
C20_StatusFailure ==
    \A n \in FailedStatusRequests :
        /\ n = Len(statusLog)
        /\ Returned
        /\ ~response.result
        /\ response.status = 403
        /\ ~response.hasResult
        /\ statusLog[n].reply = "notok" =>
              response.detailedError =
                  <<"status check could not fetch response from", statusLog[n].url>>

\* C20 witness: the first status request of a run with two presentations was
\* answered with a reply that is not 2xx.
C20_Witness ==
    /\ Returned
    /\ Len(statusLog) = 2 /\ statusLog[2].reply = "notok"
    /\ Len(ItemsOfType(queue, {"verifiablePresentation"})) = 2
    /\ \A i \in 1..Len(queue) :
          queue[i].validatedToken.type = "verifiableCredential" =>
              queue[i].tokenToValidate.statusUrl # ""

\* C21: a network failure is reported as a value: when the status request
\* throws, validate resolves to a response with result=false and status=403
\* that carries a message, and does not reject.
C21_NetworkFailureAsValue ==
    \A n \in 1..Len(statusLog) :
        (statusLog[n].kind = "post" /\ statusLog[n].reply = "throw") =>
            /\ pc # "rejected"
            /\ Returned
            /\ ~response.result
            /\ response.status = 403
            /\ response.detailedError # <<>>

\* ------------------------------------------------- two calls, one instance

\* The outcomes the validators and the status requests of a call had.
Outcomes_of(c) == [k \in 1..Len(c) |-> c[k].outcome]

Replies_of(log) == [n \in 1..Len(log) |-> log[n].reply]

Finished(p) == p \in {"returned", "rejected"}

\* Two sequences agree as far as both go.
Agree(a, b) == \A i \in 1..Len(a) : i <= Len(b) => a[i] = b[i]

\* The two calls on the instance got the same raw token, and the validators
\* and the network answered them alike as far as each of them asked.
SameInputs ==
    /\ queue # <<>> /\ parked.queue # <<>>
    /\ queue[1].tokenToValidate = parked.queue[1].tokenToValidate
    /\ Agree(Outcomes_of(calls), Outcomes_of(parked.calls))
    /\ Agree(Replies_of(statusLog), Replies_of(parked.statusLog))

\* C22: determinism across calls. Two calls of validate on one instance with
\* the same raw token and the same validator and network outcomes end the same
\* way and return identical responses, whatever the instance's token list
\* held when each of them ran.
C22_DeterminismAcrossCalls ==
    (Finished(pc) /\ Finished(parked.pc) /\ SameInputs) =>
        /\ pc = parked.pc
        /\ Returned => response = parked.response

\* C22 witness: two calls with the same presentation as root both returned
\* successfully, the second on an instance that already kept tokens.
C22_Witness ==
    /\ Returned /\ parked.pc = "returned" /\ SameInputs
    /\ response.result
    /\ Len(calls) = 1 + MaxVcs
    /\ Len(tokens) = 2 * Len(calls)
    /\ tokens[1] = tokens[Len(calls) + 1]

\* The run is over, its root is a lone token of one of the types, and the
\* root's validator accepted it.
LoneRootAccepted(types) ==
    /\ pc \notin {"idle", "loop", "drained", "status"}
    /\ Len(queue) = 1 /\ Len(calls) = 1
    /\ calls[1].type \in types /\ calls[1].outcome = "ok" /\ calls[1].result

\* C23: validate accepts a root of any classified type that has a validator:
\* the root is enqueued under the id 'siop', a lone valid credential or
\* id-token validates with result=true, and a root presentation that validates
\* gives a result whose verifiableCredentials map is defined.
C23_AnyRootType ==
    /\ queue # <<>> => queue[1].id = "siop"
    /\ LoneRootAccepted({"verifiableCredential", "idToken"}) =>
          Returned /\ response.result
    /\ (Returned /\ response.result /\ calls[1].type = "verifiablePresentation"
           /\ queue[1].tokenToValidate.vcs # <<>>) =>
          response.hasResult /\ response.validationResult.hasVcs

\* C25: whenever SiopTokenValidator.validate returns result=false (failed
\* signature or claims, nonce or state mismatch, failed extraction) it has
\* appended no item to the queue. Stated for the root, the first item
\* dispatched: nothing else has appended to the queue when its call returns,
\* and a later call finds no further item if the root's call appended none.
C25_FailedSiopAppendsNothing ==
    (RootIsSiop /\ ~calls[1].threw /\ ~calls[1].result) => Len(queue) = 1

\* The root is a SIOP whose validation succeeded and whose payload names a
\* contract URL, and no other SIOP was dispatched before the k-th call: the
\* context of the k-th call is the one the root set.
RootSetContext(k) ==
    /\ RootIsSiop /\ k > 1 /\ queue[1].isValidated /\ queue[1].validationResponse.result
    /\ readContractId(queue[1].tokenToValidate.contract).ok
    /\ \A j \in 2..(k - 1) : calls[j].type \notin SiopTypes

\* C26: the orchestrator calls every validator with the current context DID
\* and contract id: after a SIOP the context DID is the DID of its response
\* and the contract id is readContractId of its payload's contract, and each
\* validator of an id-token, a credential or a presentation dispatched after
\* it receives both.
C26_ContextHandedOn ==
    \A k \in 1..Len(calls) :
        (RootSetContext(k) /\ calls[k].type \in {"idToken", "verifiableCredential", "verifiablePresentation"}) =>
            /\ calls[k].did = queue[1].validationResponse.did
            /\ calls[k].contractId = readContractId(queue[1].tokenToValidate.contract).id

\* The status step has started: validate is in it, or a key-store read or a
\* status request was made.
StatusStarted == pc = "status" \/ statusLog # <<>>

\* C27: the status sub-protocol starts only after the queue is drained and
\* its aggregate succeeded, so a run in which any item failed makes no
\* key-store read and no status request; and validate returns result=true only
\* if the aggregate succeeded and every status request made was answered with
\* a valid receipt.
C27_StatusAfterAggregate ==
    /\ StatusStarted =>
          /\ queueItem = 0
          /\ \A i \in 1..Len(queue) :
                queue[i].isValidated /\ queue[i].validationResponse.result
    /\ (Returned /\ response.result) =>
          /\ AggregateSucceeded
          /\ \A n \in 1..Len(statusLog) :
                statusLog[n].kind = "post" => statusLog[n].reply = "ok"

\* C27 witness: with the status check enabled a run returned success after a
\* status request that was answered with a valid receipt.
C27_Witness ==
    /\ statusCheckEnabled /\ Returned /\ response.result
    /\ \E n \in 1..Len(statusLog) : statusLog[n].kind = "post" /\ statusLog[n].reply = "ok"
    /\ AggregateSucceeded

\* C30: the extraction strategy the SIOP validator applies matches the type
\* ClaimToken.create gave the token: for every SIOP that passed signature and
\* claim validation, the attestations extractor runs exactly when the token was
\* classified siopPresentationAttestation and the presentation-exchange
\* extractor exactly when it was classified siopPresentationExchange.
C30_ExtractionMatchesType ==
    \A k \in 1..Len(calls) :
        (calls[k].type \in SiopTypes /\ calls[k].outcome = "ok") =>
            /\ getTokensType(queue[calls[k].idx].tokenToValidate) = "siopPresentationAttestation"
                  <=> calls[k].type = "siopPresentationAttestation"
            /\ getTokensType(queue[calls[k].idx].tokenToValidate) = "siopPresentationExchange"
                  <=> calls[k].type = "siopPresentationExchange"

\* Every item of the queue validated with one of the types appears in map
\* under its item id, and map is as large as those items are many.
HoldsEveryItem(map, types) ==
    /\ \A i \in 1..Len(queue) :
          (queue[i].isValidated /\ queue[i].validatedToken.type \in types) =>
              \E j \in 1..Len(map) :
                  map[j].id = queue[i].id /\ map[j].ct = queue[i].validatedToken
    /\ Len(map) = Len(ItemsOfType(queue, types))

\* C31: in a successful run every validated credential item and every
\* validated presentation item of the queue appears in
\* validationResult.verifiableCredentials, respectively
\* verifiablePresentations, under its item id, and the size of each map is the
\* number of validated items of the type.
C31_MapsHoldEveryItem ==
    (Returned /\ response.result /\ response.hasResult) =>
        /\ HoldsEveryItem(response.validationResult.verifiableCredentials, {"verifiableCredential"})
        /\ HoldsEveryItem(response.validationResult.verifiablePresentations, {"verifiablePresentation"})

\* The status check is enabled, the loop and the aggregate are behind, every
\* token validated, and the queue holds no validated item of the type.
NothingToTest(type) ==
    /\ statusCheckEnabled /\ AggregateSucceeded /\ pc # "drained"
    /\ ItemsOfType(queue, {type}) = <<>>

\* C32: with the status check enabled, a run whose tokens all validated but
\* whose assembled result has no presentation, or has presentations and no
\* credential, returns result=false, status=403 and 'No presentations to
\* tests', respectively 'No verifiable credentials to tests', and makes no
\* key-store read and no status request.
C32_NothingToTest ==
    /\ NothingToTest("verifiablePresentation") =>
          /\ Returned /\ ~response.result /\ response.status = 403
          /\ response.detailedError = <<"No presentations to tests">>
          /\ ~response.hasResult /\ statusLog = <<>>
    /\ (NothingToTest("verifiableCredential") /\ ~NothingToTest("verifiablePresentation")) =>
          /\ Returned /\ ~response.result /\ response.status = 403
          /\ response.detailedError = <<"No verifiable credentials to tests">>
          /\ ~response.hasResult /\ statusLog = <<>>

\* C32 witness: with the status check enabled a valid presentation that holds
\* no credential was the whole run, and it was turned down for its lack of
\* credentials.
C32_Witness ==
    /\ NothingToTest("verifiableCredential") /\ Returned
    /\ Len(queue) = 1 /\ queue[1].validatedToken.type = "verifiablePresentation"
    /\ response.detailedError = <<"No verifiable credentials to tests">>

\* --------------------------------------------------- a call run on its own
\* The locals of a call that ran alone on a fresh instance, after the passes
\* of the loop whose validators answered outs.

Alone(q, cur, did, contractId, toks, cs) == [queue |-> q, queueItem |-> cur, siopDid |-> did, siopContractId |-> contractId, tokens |-> toks, calls |-> cs]

StartAlone(token) == Alone(enqueueToken(<<>>, "siop", token), 1, Undefined, Undefined, <<>>, <<>>)

RECURSIVE RunLoop(_, _)
RECURSIVE RunNext(_, _, _)
RunNext(st, outs, pass) ==
    IF pass.kind # "next" THEN st
    ELSE RunLoop(Alone(pass.queue, getNextToken(pass.queue), pass.siopDid, pass.siopContractId, pass.tokens, st.calls \o pass.calls), Tail(outs))

RunLoop(st, outs) ==
    IF outs = <<>> \/ st.queueItem = 0 THEN st
    ELSE RunNext(st, outs, loopBody(st.queue, st.queueItem, st.siopDid, st.siopContractId, st.tokens, tokenValidators, expected, Head(outs)))

\* The call with locals f is where run is: in the loop its queue, its
\* position, its context DID and contract id and its validator calls are
\* those of the run alone, and what it returned from the loop or from the
\* aggregate is what the run alone returns there.
AloneAgrees(f, run) ==
    /\ f.pc \in {"loop", "drained"} =>
          /\ f.queue = run.queue /\ f.queueItem = run.queueItem
          /\ f.siopDid = run.siopDid /\ f.siopContractId = run.siopContractId
          /\ f.calls = run.calls
    /\ (f.pc = "returned" /\ f.queueItem >= 1) =>
          /\ f.queue = run.queue /\ f.queueItem = run.queueItem
          /\ f.response = loopBody(run.queue, run.queueItem, run.siopDid, run.siopContractId, run.tokens, tokenValidators, expected, "ok").response
    /\ (f.pc = "returned" /\ f.queueItem = 0 /\ f.statusLog = <<>> /\ afterLoop(run.queue, statusCheckEnabled).kind = "return") =>
          /\ f.queue = run.queue
          /\ f.response = afterLoop(run.queue, statusCheckEnabled).response

\* C29: two validate() calls in flight on one instance, interleaved at their
\* awaits, go as each would alone: the queue, the context DID, the contract
\* id and the validator calls of each are those of a run of its own root
\* token alone with the same validator outcomes, and so is what it returns.
C29_CallsIsolated ==
    \A f \in {Frame(pc, queue, queueItem, siopDid, siopContractId, response, calls, status, statusLog), parked} :
        f.queue # <<>> =>
            AloneAgrees(f, RunLoop(StartAlone(f.queue[1].tokenToValidate), Outcomes_of(f.calls)))

\* C29 witness: two calls with different root tokens are both in the loop,
\* and the instance's token list holds a token of the first, then one of the
\* second, then one of the first again.
C29_Witness ==
    /\ pc = "loop" /\ parked.pc = "loop"
    /\ Len(calls) >= 2 /\ Len(parked.calls) >= 1 /\ Len(tokens) >= 3
    /\ queue[1].tokenToValidate # parked.queue[1].tokenToValidate
    /\ tokens[1].tok = queue[1].tokenToValidate
    /\ tokens[2].tok = parked.queue[1].tokenToValidate
    /\ tokens[3].tok = queue[2].tokenToValidate
    /\ siopDid # parked.siopDid

\* ------------------------------------------------------- the loop, fair
\* One call on an instance whose builder may have left a validator out. A
\* pass of the loop that has started completes: each validator returns.

FairConfigurations ==
    {[tokenValidators |-> AllValidators \ t, expected |-> NoExpected, statusCheck |-> f] : t \in {{}, {"idToken"}, {"verifiableCredential"}}, f \in BOOLEAN}

InitFair ==
    /\ Init
    /\ [tokenValidators |-> tokenValidators, expected |-> expected, statusCheck |-> statusCheckEnabled] \in FairConfigurations

NextFair == ValidateCall \/ LoopPass \/ Drained \/ CheckStatus

SpecFair == InitFair /\ [][NextFair]_vars /\ WF_vars(LoopPass)

AllValidated == \A i \in 1..Len(queue) : queue[i].isValidated

\* Every item is dispatched at most once, and a stored result stays as it is.
DispatchedOnce ==
    /\ [](\A j, k \in 1..Len(calls) : calls[j].idx = calls[k].idx => j = k)
    /\ [][\A i \in 1..Len(queue) :
             queue[i].isValidated => (i <= Len(queue') /\ queue'[i] = queue[i])]_vars

\* C28 as stated: every item is dispatched at most once and its stored result
\* is never overwritten, and the loop terminates with every item of the queue
\* validated.
C28_LoopValidatesEveryItem ==
    /\ DispatchedOnce
    /\ (pc = "loop") ~> (pc # "loop")
    /\ [](pc \notin {"idle", "loop"} => AllValidated)

\* C28, amended: every item is dispatched at most once and its stored result
\* is never overwritten, and the loop terminates; when it ends because the
\* queue holds no unvalidated item, every item is validated, and otherwise it
\* ended in an early return with status 400 or 500 or in a rejection, at the
\* item it stopped at.
C28_LoopTerminates ==
    /\ DispatchedOnce
    /\ (pc = "loop") ~> (pc # "loop")
    /\ [](pc \in {"drained", "status"} => AllValidated)
    /\ [](pc \notin {"idle", "loop"} /\ ~AllValidated =>
             /\ queueItem >= 1 /\ ~queue[queueItem].isValidated
             /\ \A i \in 1..(queueItem - 1) : queue[i].isValidated
             /\ \/ pc = "rejected"
                \/ Returned /\ ~response.result /\ response.status \in {400, 500})

\* C28 witness: the loop ended on a drained queue of at least three items, all
\* validated in as many calls, the second of which had failed.
C28_Witness ==
    /\ pc = "drained" /\ Len(queue) >= 3 /\ Len(calls) = Len(queue) /\ AllValidated
    /\ ~queue[2].validationResponse.result /\ queue[3].validationResponse.result

\* ---------------------------------------------------- the ClaimToken object
\* A caller builds a ClaimToken and uses its public interface. The getters
\* (type, rawToken, tokenHeader, decodedToken, configuration) change nothing;
\* the one operation that writes is the rawToken setter.

RawTokens ==
    {IdTok, UnsignedTok, VcTok(""), SiopTok, [IdTok EXCEPT !.dec = "badpayload"]}

NewClaimToken ==
    /\ ~claimToken.made
    /\ \E typeName \in TokenTypes \cup {"bogus"}, token \in RawTokens :
          /\ ClaimToken_new(typeName, token).made
          /\ claimToken' = ClaimToken_new(typeName, token)
    /\ UNCHANGED <<config, tokens, pc, queue, queueItem, siopDid, siopContractId, response, calls, status, statusLog, parked>>

SetRawToken ==
    /\ claimToken.made
    /\ \E value \in RawTokens : claimToken' = setRawToken(claimToken, value)
    /\ UNCHANGED <<config, tokens, pc, queue, queueItem, siopDid, siopContractId, response, calls, status, statusLog, parked>>

NextClaimToken == NewClaimToken \/ SetRawToken

SpecClaimToken == Init /\ [][NextClaimToken]_vars

\* C24: a ClaimToken is immutable after construction: no operation of its
\* public interface changes its type, rawToken, header or decoded payload, and
\* the decoded payload is always the decoding of rawToken.
C24_ClaimTokenImmutable ==
    /\ [][claimToken.made => claimToken' = claimToken]_vars
    /\ [](claimToken.made =>
             /\ decode(claimToken.rawToken).ok
             /\ claimToken.decodedToken = decode(claimToken.rawToken).decodedToken)

====
